---- MODULE Spec2Model ----
(***************************************************************************)
(* A model of the VPinFE front-end shell:                                  *)
(*   src/frontend/qt_window_manager.py   window launch, lifecycle, manager *)
(*                                       overlay, native dialog bridge,    *)
(*                                       readiness probe                   *)
(* Python strings are sequences of one-character strings, so that strip()  *)
(* and int() are computed, not assumed.                                    *)
(***************************************************************************)
EXTENDS Integers, Sequences, FiniteSets, TLC

\* ------------------------------------------------------------------ bounds
MaxMonitors == 2   \* monitors enumerated at a launch
MaxLaunches == 2   \* launch_all_windows calls in one run
MaxDialogs == 3    \* overlay dialogs one window creates
MaxRaises == 2     \* raise_() calls on one overlay dialog
MaxReloads == 1    \* reloads of one page
MaxPicks == 2      \* pick_native_path calls
MaxEmits == 2      \* requests emitted on the bridge
MaxTimeout == 3    \* probe timeout, in ticks
MaxInterval == 2   \* probe interval, in ticks
MaxOversleep == 1  \* ticks time.sleep may oversleep
MaxEdits == 1      \* fields set between opening the panel and saving
MaxOpens == 2      \* times the configuration panel is opened

\* urlopen(url, timeout=1): one second is four ticks of 0.25 s
UrlopenTimeout == 4

\* ----------------------------------------------------------- Python strings
Whitespace == {" ", "\t"}
Digits == {"0", "1", "2", "3", "4", "5", "6", "7", "8", "9"}

DigitValue(c) ==
  CASE c = "0" -> 0 [] c = "1" -> 1 [] c = "2" -> 2 [] c = "3" -> 3
    [] c = "4" -> 4 [] c = "5" -> 5 [] c = "6" -> 6 [] c = "7" -> 7
    [] c = "8" -> 8 [] c = "9" -> 9

RECURSIVE LStrip(_)
LStrip(s) ==
  IF Len(s) > 0 /\ s[1] \in Whitespace THEN LStrip(Tail(s)) ELSE s

RECURSIVE RStrip(_)
RStrip(s) ==
  IF Len(s) > 0 /\ s[Len(s)] \in Whitespace
    THEN RStrip(SubSeq(s, 1, Len(s) - 1))
    ELSE s

\* str.strip()
Strip(s) == RStrip(LStrip(s))

\* the part of an int() literal after its optional sign
Unsigned(s) == IF Len(s) > 0 /\ s[1] \in {"+", "-"} THEN Tail(s) ELSE s

\* int(s) succeeds: optional surrounding whitespace, optional sign, digits
\* with single underscores between digits; anything else is ValueError
IsIntLiteral(s) ==
  LET b == Unsigned(Strip(s))
  IN /\ Len(b) > 0
     /\ b[1] \in Digits
     /\ b[Len(b)] \in Digits
     /\ \A i \in 1..Len(b) :
          \/ b[i] \in Digits
          \/ b[i] = "_" /\ b[i - 1] \in Digits /\ b[i + 1] \in Digits

RECURSIVE DigitsValue(_, _)
DigitsValue(b, acc) ==
  IF b = <<>> THEN acc
  ELSE IF b[1] = "_" THEN DigitsValue(Tail(b), acc)
  ELSE DigitsValue(Tail(b), 10 * acc + DigitValue(b[1]))

\* the value of int(s) when IsIntLiteral(s)
IntValue(s) ==
  LET t == Strip(s)
      v == DigitsValue(Unsigned(t), 0)
  IN IF Len(t) > 0 /\ t[1] = "-" THEN 0 - v ELSE v

\* --------------------------------------------------- [Displays] of the ini
DisplayKeys == {"bgscreenid", "dmdscreenid", "tablescreenid"}

\* iniconfig.config["Displays"].get(config_key, "")
DisplaysGet(cfg, key) == IF key \in DOMAIN cfg THEN cfg[key] ELSE <<>>

\* the sanitization block of launch_all_windows
LooksBoolean ==
  { <<"F", "a", "l", "s", "e">>, <<"N", "o", "n", "e">>, <<"T", "r", "u", "e">> }

\* 'True' read as the number 1, as int(True) would
SanitizeScreenId_TrueIsOne(screen_id_str) ==
  IF screen_id_str = <<"T", "r", "u", "e">> THEN 1
  ELSE IF screen_id_str \in LooksBoolean THEN 0
  ELSE IF IsIntLiteral(screen_id_str) THEN IntValue(screen_id_str)
  ELSE 0

SanitizeScreenId(screen_id_str) ==
  IF screen_id_str \in LooksBoolean THEN 0
  ELSE IF IsIntLiteral(screen_id_str) THEN IntValue(screen_id_str)
  ELSE 0

\* Order: bg -> dmd -> table
window_configs ==
  << <<"bg", "bgscreenid">>, <<"dmd", "dmdscreenid">>, <<"table", "tablescreenid">> >>

WindowNames == {"bg", "dmd", "table"}

\* the geometry of a window created when no monitor was enumerated:
\* x = 0, y = 0, 1920x1080 (mon is None)
DefaultGeometry == -1

\* monitors[screen_id] of a list of n monitors: Python indexes from the end for
\* a negative index, and raises IndexError below -n
MonitorAt(screen_id, n) == IF screen_id < 0 THEN n + screen_id ELSE screen_id

\* the for loop with the too-large index ending the loop instead of skipping
RECURSIVE CreateWindows_Break(_, _, _, _, _)
CreateWindows_Break(cfg, nmon, firstId, i, acc) ==
  IF i > Len(window_configs) THEN acc
  ELSE
    LET win_name == window_configs[i][1]
        screen_id_str == Strip(DisplaysGet(cfg, window_configs[i][2]))
        screen_id == SanitizeScreenId(screen_id_str)
    IN IF screen_id_str = <<>> THEN CreateWindows_Break(cfg, nmon, firstId, i + 1, acc)
       ELSE IF nmon > 0 /\ screen_id >= nmon
         THEN acc
       ELSE IF nmon > 0 /\ screen_id < 0 - nmon
         THEN [acc EXCEPT !.raised = "IndexError"]
       ELSE CreateWindows_Break(cfg, nmon, firstId, i + 1,
              [acc EXCEPT !.wins = Append(@,
                 [id |-> firstId + Len(acc.wins),
                  name |-> win_name,
                  mon |-> IF nmon > 0 THEN MonitorAt(screen_id, nmon)
                                      ELSE DefaultGeometry])])

\* The for loop of launch_all_windows from its i-th entry on. acc.wins are the
\* windows created so far, acc.raised the exception that ended the loop.
RECURSIVE CreateWindows(_, _, _, _, _)
CreateWindows(cfg, nmon, firstId, i, acc) ==
  IF i > Len(window_configs) THEN acc
  ELSE
    LET win_name == window_configs[i][1]
        screen_id_str == Strip(DisplaysGet(cfg, window_configs[i][2]))
        screen_id == SanitizeScreenId(screen_id_str)
    IN IF screen_id_str = <<>> THEN CreateWindows(cfg, nmon, firstId, i + 1, acc)
       ELSE IF nmon > 0 /\ screen_id >= nmon
         THEN CreateWindows(cfg, nmon, firstId, i + 1, acc)
       ELSE IF nmon > 0 /\ screen_id < 0 - nmon
         THEN [acc EXCEPT !.raised = "IndexError"]
       ELSE CreateWindows(cfg, nmon, firstId, i + 1,
              [acc EXCEPT !.wins = Append(@,
                 [id |-> firstId + Len(acc.wins),
                  name |-> win_name,
                  mon |-> IF nmon > 0 THEN MonitorAt(screen_id, nmon)
                                      ELSE DefaultGeometry])])

\* ------------------------------------------------------------ manager state
VARIABLES
  app,        \* self._app is not None
  windows,    \* self._windows: the tracked windows, in creation order
  exitFlag,   \* self._exit_event.is_set()
  shown,      \* ids of the windows that are open on screen
  loaded,     \* ids of the windows whose load_url has run
  timers,     \* pending QTimer.singleShot(200, self._load_all)
  focus,      \* id of the window raised and focused by _load_all, 0 if none
  bridge,     \* _global_dialog_bridge: 0 for None, else its parent window id
  pc,         \* main thread: "idle", "exec" (inside app.exec()), "exited"
              \* (app.exec() returned), "killed" (process ended by SIGINT)
  nextId,     \* id of the next window object
  launches,   \* number of launch_all_windows calls so far
  last        \* the last step taken and what it did

mgrVars == <<app, windows, exitFlag, shown, loaded, timers, focus, bridge, pc,
             nextId, launches, last>>

\* ------------------------------------------------ manager overlay state
VARIABLES
  dialogs,      \* the QDialog objects one window's _open_manager has created, in
                \* order; the last one is self._manager_dialog
  pageReloads,  \* Reload Window actions taken on the window
  ovLast        \* the last overlay step and the overlay before it

ovVars == <<dialogs, pageReloads, ovLast>>

\* ------------------------------------------------ native dialog bridge state
VARIABLES
  requests,   \* request_signal emissions not yet handled by _show_dialog
  picks,      \* the pick_native_path calls made so far
  handbacks,  \* per request id, the values its handback was invoked with
  shownDlg,   \* per request id, the native dialogs shown for it
  nextReq     \* id of the next request

dlgVars == <<requests, picks, handbacks, shownDlg, nextReq>>

\* ------------------------------------------------ readiness probe state
VARIABLES
  now,        \* time.time(), in ticks
  deadline,   \* deadline of the running probe
  interval,   \* its interval
  ppc,        \* "idle", "check" (the while test), "attempt" (urlopen),
              \* "sleep" (time.sleep), "done" (returned)
  presult,    \* the value returned: "none" until it returns, then TRUE or FALSE
  outcomes,   \* what each urlopen attempt met, in order
  sleeps      \* time.sleep calls made

prbVars == <<now, deadline, interval, ppc, presult, outcomes, sleeps>>

\* ------------------------------------------------ configuration panel state
VARIABLES
  file,     \* the settings file at INI_PATH: per field, its value as text
  parser,   \* the class behind IniConfig.config: "unknown" until the panel
            \* first opens, then "ConfigParser" or "RawConfigParser"
  store,    \* config.config of the open panel: per field, its value
  inputs,   \* inputs[section][key] of the open panel: per rendered field,
            \* the widget kind and the widget's value
  typed,    \* the fields set since the panel was opened, with the value set
  pLast     \* the last panel step and what it did

pnlVars == <<file, parser, store, inputs, typed, pLast>>

vars == <<mgrVars, ovVars, dlgVars, prbVars, pnlVars>>

MgrOnly == UNCHANGED <<ovVars, dlgVars, prbVars, pnlVars>>

Ids(ws) == {ws[i].id : i \in 1..Len(ws)}

NoCfg == [k \in {} |-> <<>>]

Step(op) ==
  [op |-> op, cfg |-> NoCfg, nmon |-> 0, created |-> <<>>, scheduled |-> FALSE,
   raised |-> "none", before |-> <<>>]

\* QtWindowManager.is_running
is_running == windows # <<>> /\ ~exitFlag

\* QtWindowManager.__init__ and the module globals
MgrInit ==
  /\ app = FALSE
  /\ windows = <<>>
  /\ exitFlag = FALSE
  /\ shown = {}
  /\ loaded = {}
  /\ timers = 0
  /\ focus = 0
  /\ bridge = 0
  /\ pc = "idle"
  /\ nextId = 1
  /\ launches = 0
  /\ last = Step("init")

\* the exit flag assigned from the test instead of set
ExitAfterLaunch_Assign(flag, returned, tracked) ==
  returned /\ tracked = <<>>

\* the end of launch_all_windows: "if not self._windows: self._exit_event.set()"
ExitAfterLaunch(flag, returned, tracked) ==
  flag \/ (returned /\ tracked = <<>>)

\* QtWindowManager.launch_all_windows(iniconfig) with nmon monitors enumerated.
\* _wait_for_server only decides which line is printed.
launch_all_windows(cfg, nmon) ==
  /\ pc = "idle"
  /\ launches < MaxLaunches
  /\ LET r == CreateWindows(cfg, nmon, nextId, 1, [wins |-> <<>>, raised |-> "none"])
         tracked == windows \o r.wins
         returned == r.raised = "none"
     IN /\ app' = TRUE
        /\ windows' = tracked
        /\ shown' = shown \cup Ids(r.wins)
        /\ nextId' = nextId + Len(r.wins)
        /\ exitFlag' = ExitAfterLaunch(exitFlag, returned, tracked)
        /\ timers' = IF returned /\ tracked # <<>> THEN timers + 1 ELSE timers
        /\ last' = [Step("launch_all_windows") EXCEPT
                      !.cfg = cfg, !.nmon = nmon, !.created = r.wins,
                      !.scheduled = (returned /\ tracked # <<>>),
                      !.raised = r.raised, !.before = windows]
  /\ launches' = launches + 1
  /\ UNCHANGED <<loaded, focus, bridge, pc>>
  /\ MgrOnly

\* terminate_all without self._exit_event.set()
terminate_all_NoSet ==
  /\ pc \in {"idle", "exec", "exited"}
  /\ shown' = shown \ Ids(windows)
  /\ windows' = <<>>
  /\ pc' = IF pc = "exec" /\ shown # {} /\ shown \subseteq Ids(windows)
             THEN "exited" ELSE pc
  /\ last' = [Step("terminate_all") EXCEPT !.before = windows]
  /\ UNCHANGED <<app, exitFlag, loaded, timers, focus, bridge, nextId, launches>>
  /\ MgrOnly

\* QtWindowManager.terminate_all; closing the last open window while the event
\* loop runs ends the loop (aboutToQuit -> _on_app_quit)
terminate_all ==
  /\ pc \in {"idle", "exec", "exited"}
  /\ shown' = shown \ Ids(windows)
  /\ windows' = <<>>
  /\ exitFlag' = TRUE
  /\ pc' = IF pc = "exec" /\ shown # {} /\ shown \subseteq Ids(windows)
             THEN "exited" ELSE pc
  /\ last' = [Step("terminate_all") EXCEPT !.before = windows]
  /\ UNCHANGED <<app, loaded, timers, focus, bridge, nextId, launches>>
  /\ MgrOnly

\* QtWindowManager.wait_for_exit when no application object exists
wait_for_exit_no_app ==
  /\ pc = "idle"
  /\ ~app
  /\ last' = Step("wait_for_exit")
  /\ UNCHANGED <<app, windows, exitFlag, shown, loaded, timers, focus, bridge,
                 pc, nextId, launches>>
  /\ MgrOnly

\* QtWindowManager.wait_for_exit up to self._app.exec()
wait_for_exit_enter ==
  /\ pc = "idle"
  /\ app
  /\ pc' = "exec"
  /\ last' = Step("exec")
  /\ UNCHANGED <<app, windows, exitFlag, shown, loaded, timers, focus, bridge,
                 nextId, launches>>
  /\ MgrOnly

\* QtWindowManager.wait_for_exit after self._app.exec() returned
wait_for_exit_return ==
  /\ pc = "exited"
  /\ exitFlag' = TRUE
  /\ pc' = "idle"
  /\ last' = Step("wait_for_exit")
  /\ UNCHANGED <<app, windows, shown, loaded, timers, focus, bridge, nextId,
                 launches>>
  /\ MgrOnly

\* the Quit VPinFE menu action or Cmd+Q: QApplication.quit, aboutToQuit runs
\* QtWindowManager._on_app_quit and the event loop ends
quit_action ==
  /\ pc = "exec"
  /\ exitFlag' = TRUE
  /\ shown' = shown \ Ids(windows)
  /\ pc' = "exited"
  /\ last' = Step("quit")
  /\ UNCHANGED <<app, windows, loaded, timers, focus, bridge, nextId, launches>>
  /\ MgrOnly

\* the user closes one window (_VPinWindow.closeEvent accepts); closing the
\* last one ends the event loop through aboutToQuit -> _on_app_quit
close_window(id) ==
  /\ pc = "exec"
  /\ id \in shown
  /\ shown' = shown \ {id}
  /\ exitFlag' = (exitFlag \/ shown = {id})
  /\ pc' = IF shown = {id} THEN "exited" ELSE pc
  /\ last' = Step("closeEvent")
  /\ UNCHANGED <<app, windows, loaded, timers, focus, bridge, nextId, launches>>
  /\ MgrOnly

\* Ctrl+C with signal.SIGINT set to SIG_DFL: the process ends inside exec()
interrupt ==
  /\ pc = "exec"
  /\ pc' = "killed"
  /\ last' = Step("SIGINT")
  /\ UNCHANGED <<app, windows, exitFlag, shown, loaded, timers, focus, bridge,
                 nextId, launches>>
  /\ MgrOnly

\* the first tracked window taken for the one to focus
TableWindow_First(ws) == IF ws = <<>> THEN 0 ELSE ws[1].id

\* the last tracked window named 'table', 0 if none (table_window of _load_all)
TableWindow(ws) ==
  LET at == {i \in 1..Len(ws) : ws[i].name = "table"}
  IN IF at = {} THEN 0 ELSE ws[CHOOSE i \in at : \A j \in at : j <= i].id

\* QtWindowManager._load_all, run by the single-shot timer in the event loop
_load_all ==
  /\ pc = "exec"
  /\ timers > 0
  /\ timers' = timers - 1
  /\ loaded' = loaded \cup Ids(windows)
  /\ LET table_window == TableWindow(windows)
     IN IF table_window # 0
          THEN bridge' = table_window /\ focus' = table_window
          ELSE UNCHANGED <<bridge, focus>>
  /\ last' = Step("_load_all")
  /\ UNCHANGED <<app, windows, exitFlag, shown, pc, nextId, launches>>
  /\ MgrOnly

\* ------------------------------------------------- the manager overlay
OvOnly == UNCHANGED <<mgrVars, dlgVars, prbVars, pnlVars>>

OvStep(op) == [op |-> op, before |-> dialogs]

OvInit ==
  /\ dialogs = <<>>
  /\ pageReloads = 0
  /\ ovLast = [op |-> "init", before |-> <<>>]

\* _open_manager creating every time (the visibility test dropped)
ManagerVisible_NoCheck(ds) == FALSE

\* hasattr(self, '_manager_dialog') and self._manager_dialog.isVisible()
ManagerVisible(ds) == Len(ds) > 0 /\ ds[Len(ds)].visible

\* _VPinWindow._open_manager
_open_manager ==
  /\ IF ManagerVisible(dialogs)
       THEN /\ dialogs[Len(dialogs)].raised < MaxRaises
            /\ dialogs' = [dialogs EXCEPT ![Len(dialogs)].raised = @ + 1]
       ELSE /\ Len(dialogs) < MaxDialogs
            /\ dialogs' = Append(dialogs,
                 [visible |-> TRUE, raised |-> 0, reloads |-> 0])
  /\ ovLast' = OvStep("_open_manager")
  /\ UNCHANGED pageReloads
  /\ OvOnly

\* the Close Manager action of _show_manager_context_menu
close_manager ==
  /\ ManagerVisible(dialogs)
  /\ dialogs' = [dialogs EXCEPT ![Len(dialogs)].visible = FALSE]
  /\ ovLast' = OvStep("close")
  /\ UNCHANGED pageReloads
  /\ OvOnly

\* the Reload Page action of _show_manager_context_menu
reload_manager ==
  /\ ManagerVisible(dialogs)
  /\ dialogs[Len(dialogs)].reloads < MaxReloads
  /\ dialogs' = [dialogs EXCEPT ![Len(dialogs)].reloads = @ + 1]
  /\ ovLast' = OvStep("reload_manager")
  /\ UNCHANGED pageReloads
  /\ OvOnly

\* the Reload Window action of _show_context_menu
reload_window ==
  /\ pageReloads < MaxReloads
  /\ pageReloads' = pageReloads + 1
  /\ ovLast' = OvStep("reload_window")
  /\ UNCHANGED dialogs
  /\ OvOnly

\* --------------------------------------------- the native dialog bridge
DlgOnly ==
  UNCHANGED <<app, windows, exitFlag, shown, loaded, timers, focus, pc, nextId,
              launches, last, ovVars, prbVars, pnlVars>>

\* the names bound at module level by the import statements
ModuleGlobals ==
  { "sys", "time", "threading", "urllib", "queue", "Optional", "Qt", "QUrl",
    "QTimer", "Signal", "QObject", "QDesktopServices", "QAction",
    "QApplication", "QMenu", "QDialog", "QVBoxLayout", "QFileDialog",
    "QWebEngineView", "QWebEngineSettings", "QWebEnginePage",
    "QWebEngineContextMenuRequest", "get_monitors" }

Modes == {"folder", "file"}
Paths == {"/tables", "/usr/bin/vpx"}

\* what the native chooser does: a path is chosen, the dialog is cancelled
\* (Qt returns the empty string), or the call raises
DialogOutcomes ==
  [kind : {"chosen"}, path : Paths] \cup [kind : {"cancelled", "raised"}, path : {""}]

DlgInit ==
  /\ requests = <<>>
  /\ picks = <<>>
  /\ handbacks = <<>>
  /\ shownDlg = <<>>
  /\ nextReq = 1

\* setup_native_dialogs(main_window)
setup_native_dialogs(w) ==
  /\ bridge' = w
  /\ UNCHANGED dlgVars
  /\ DlgOnly

\* pick_native_path going on without a bridge
BridgeReady_Always(b) == TRUE

\* "if not _global_dialog_bridge" of pick_native_path, negated
BridgeReady(b) == b # 0

\* one request_signal.emit(mode, callback)
Emit(mode, callback, pick) ==
  /\ requests' = Append(requests,
       [id |-> nextReq, mode |-> mode, callback |-> callback, pick |-> pick])
  /\ handbacks' = Append(handbacks, <<>>)
  /\ shownDlg' = Append(shownDlg, <<>>)
  /\ nextReq' = nextReq + 1

\* pick_native_path(mode), up to its await
pick_native_path(mode) ==
  /\ Len(picks) < MaxPicks
  /\ IF ~BridgeReady(bridge)
       THEN /\ picks' = Append(picks,
                 [mode |-> mode, bridged |-> bridge # 0, state |-> "returned",
                  result |-> "None", raised |-> "none", req |-> 0])
            /\ UNCHANGED <<requests, handbacks, shownDlg, nextReq>>
     ELSE IF "asyncio" \notin ModuleGlobals
       THEN /\ picks' = Append(picks,
                 [mode |-> mode, bridged |-> bridge # 0, state |-> "raised",
                  result |-> "none", raised |-> "NameError", req |-> 0])
            /\ UNCHANGED <<requests, handbacks, shownDlg, nextReq>>
     ELSE /\ picks' = Append(picks,
               [mode |-> mode, bridged |-> bridge # 0, state |-> "awaiting",
                result |-> "none", raised |-> "none", req |-> nextReq])
          /\ Emit(mode, "on_done", Len(picks) + 1)
  /\ UNCHANGED bridge
  /\ DlgOnly

\* a request made on the bridge's request_signal by another caller
request_emit(mode) ==
  /\ bridge # 0
  /\ nextReq <= MaxEmits
  /\ Emit(mode, "handback", 0)
  /\ UNCHANGED <<picks, bridge>>
  /\ DlgOnly

\* _DialogWorker._show_dialog(mode, callback) for the oldest request; on_done
\* hands the path to the future pick_native_path awaits
_show_dialog(outcome) ==
  /\ requests # <<>>
  /\ LET r == Head(requests)
         path == IF outcome.kind = "chosen" THEN outcome.path ELSE ""
     IN /\ shownDlg' = [shownDlg EXCEPT ![r.id] =
             Append(@, IF r.mode = "folder" THEN "getExistingDirectory"
                                            ELSE "getOpenFileName")]
        /\ handbacks' = [handbacks EXCEPT ![r.id] = Append(@, path)]
        /\ picks' = IF r.callback = "on_done"
                      THEN [picks EXCEPT ![r.pick].state = "returned",
                                         ![r.pick].result = path]
                      ELSE picks
  /\ requests' = Tail(requests)
  /\ UNCHANGED <<nextReq, bridge>>
  /\ DlgOnly

\* ------------------------------------------------- the readiness probe
PrbOnly == UNCHANGED <<mgrVars, ovVars, dlgVars, pnlVars>>

PrbInit ==
  /\ now = 0
  /\ deadline = 0
  /\ interval = 0
  /\ ppc = "idle"
  /\ presult = "none"
  /\ outcomes = <<>>
  /\ sleeps = 0

\* what one urlopen(url, timeout=1) can meet: a response, an HTTP error
\* status, or any other exception (refused, unreachable, timed out)
AttemptOutcomes == {"response", "HTTPError", "Exception"}

\* only a 2xx response counted as alive
Answered_OnlyOk(o) == o = "response"

\* the attempts that make _wait_for_server return True
Answered(o) == o \in {"response", "HTTPError"}

\* deadline = time.time() + timeout
probe_start(timeout, iv) ==
  /\ ppc = "idle"
  /\ deadline' = now + timeout
  /\ interval' = iv
  /\ ppc' = "check"
  /\ UNCHANGED <<now, presult, outcomes, sleeps>>
  /\ PrbOnly

\* while time.time() < deadline: ... return False
probe_check ==
  /\ ppc = "check"
  /\ IF now < deadline
       THEN ppc' = "attempt" /\ UNCHANGED presult
       ELSE ppc' = "done" /\ presult' = "False"
  /\ UNCHANGED <<now, deadline, interval, outcomes, sleeps>>
  /\ PrbOnly

\* the try block: urlopen takes d ticks and meets outcome o
probe_attempt(o, d) ==
  /\ ppc = "attempt"
  /\ now' = now + d
  /\ outcomes' = Append(outcomes, o)
  /\ IF Answered(o)
       THEN ppc' = "done" /\ presult' = "True"
       ELSE ppc' = "sleep" /\ UNCHANGED presult
  /\ UNCHANGED <<deadline, interval, sleeps>>
  /\ PrbOnly

\* time.sleep(interval), which may oversleep
probe_sleep(extra) ==
  /\ ppc = "sleep"
  /\ now' = now + interval + extra
  /\ sleeps' = sleeps + 1
  /\ ppc' = "check"
  /\ UNCHANGED <<deadline, interval, presult, outcomes>>
  /\ PrbOnly

\* ------------------------------------------------ the configuration panel
PnlOnly == UNCHANGED <<mgrVars, ovVars, dlgVars, prbVars>>

UpperLetters ==
  << "A", "B", "C", "D", "E", "F", "G", "H", "I", "J", "K", "L", "M",
     "N", "O", "P", "Q", "R", "S", "T", "U", "V", "W", "X", "Y", "Z" >>

LowerLetters ==
  << "a", "b", "c", "d", "e", "f", "g", "h", "i", "j", "k", "l", "m",
     "n", "o", "p", "q", "r", "s", "t", "u", "v", "w", "x", "y", "z" >>

LowerChar(c) ==
  IF \E i \in 1..Len(UpperLetters) : UpperLetters[i] = c
    THEN LowerLetters[CHOOSE i \in 1..Len(UpperLetters) : UpperLetters[i] = c]
    ELSE c

\* str.lower()
Lower(s) == [i \in 1..Len(s) |-> LowerChar(s[i])]

\* ('true', 'yes', 'on', '1')
TrueTokens ==
  { <<"t", "r", "u", "e">>, <<"y", "e", "s">>, <<"o", "n">>, <<"1">> }

\* ('false', 'no', 'off', '0')
FalseTokens ==
  { <<"f", "a", "l", "s", "e">>, <<"n", "o">>, <<"o", "f", "f">>, <<"0">> }

IGNORED_SECTIONS == {"VPSdb"}

\* a Python value held by a widget or the store: a str or a bool
StrValue(s) == [t |-> "str", s |-> s, b |-> FALSE]
BoolValue(b) == [t |-> "bool", s |-> <<>>, b |-> b]

\* str(value), as ConfigParser.write renders a value
PyStr(v) ==
  IF v.t = "str" THEN v.s
  ELSE IF v.b THEN <<"T", "r", "u", "e">> ELSE <<"F", "a", "l", "s", "e">>

\* the fields of the settings file, in file order: <<section, key>>
Fields ==
  << <<"Settings", "vpxbinpath">>, <<"Settings", "theme">>,
     <<"Settings", "startup_collection">>, <<"Media", "tabletype">>,
     <<"VPSdb", "last">> >>

FieldIds == 1..Len(Fields)

\* sections = [s for s in config.config.sections() if s not in IGNORED_SECTIONS]
Rendered == {f \in FieldIds : Fields[f][1] \notin IGNORED_SECTIONS}

\* _get_installed_theme_names() and _get_collection_names()
InstalledThemes == { <<"n", "e", "o", "n">>, <<"d", "a", "r", "k">> }
CollectionNames == { <<>>, <<"f", "a", "v">> }

\* the chain with the two dropdown keys tested before the boolean tokens
WidgetKind_DropdownFirst(section, key, value) ==
  IF section = "Settings" /\ key \in {"startup_collection", "theme"} THEN "select"
  ELSE IF Lower(value) \in TrueTokens \cup FalseTokens THEN "switch"
  ELSE "input"

\* the if/elif chain of render_panel that picks the widget
WidgetKind(section, key, value) ==
  IF Lower(value) \in TrueTokens \cup FalseTokens THEN "switch"
  ELSE IF section = "Settings" /\ key = "startup_collection" THEN "select"
  ELSE IF section = "Settings" /\ key = "theme" THEN "select"
  ELSE "input"

\* the options of a dropdown: the derived list, plus the current value when it
\* is non-empty and missing from the list
Options(key, value) ==
  (IF key = "theme" THEN InstalledThemes ELSE CollectionNames)
    \cup (IF value # <<>> THEN {value} ELSE {})

\* the widget render_panel builds for one field: ui.switch, ui.select or
\* ui.input, none of them with a path-picker button beside it
Widget(section, key, value) ==
  LET kind == WidgetKind(section, key, value)
  IN [kind |-> kind,
      val |-> IF kind = "switch" THEN BoolValue(Lower(value) \in TrueTokens)
                                 ELSE StrValue(value),
      options |-> IF kind = "select" THEN Options(key, value) ELSE {},
      picker |-> "none"]

\* values the settings file starts with, and values set in the panel
FileValues == { <<"Y", "e", "s">>, <<"/", "v">> }

EditValues == { <<"t", "r", "u", "e">>, <<"O", "F", "F">>, <<"/", "t">> }

PStep(op) ==
  [op |-> op, opens |-> IF op = "init" THEN 0 ELSE pLast.opens,
   afterSave |-> FALSE, typed |-> {}, raised |-> "none"]

PnlInit ==
  /\ file = [f \in FieldIds |-> <<"0">>]
  /\ parser = "unknown"
  /\ store = <<>>
  /\ inputs = <<>>
  /\ typed = {}
  /\ pLast = PStep("init")

\* the settings file as another program or the user left it, before the panel
\* is first opened
ini_written(values) ==
  /\ pLast.op = "init"
  /\ file' = [f \in FieldIds |-> IF f \in Rendered THEN values[f] ELSE file[f]]
  /\ pLast' = PStep("ini_written")
  /\ UNCHANGED <<parser, store, inputs, typed>>
  /\ PnlOnly

\* render_panel: IniConfig re-reads the file (values are stripped by the
\* parser) and one widget is built per key of each non-ignored section
render_panel(cls) ==
  /\ parser \in {"unknown", cls}
  /\ pLast.opens < MaxOpens
  /\ parser' = cls
  /\ store' = [f \in FieldIds |-> StrValue(Strip(file[f]))]
  /\ inputs' = [f \in Rendered |->
                  Widget(Fields[f][1], Fields[f][2], Strip(file[f]))]
  /\ typed' = {}
  /\ pLast' = [PStep("render_panel") EXCEPT
                 !.opens = pLast.opens + 1,
                 !.afterSave = (pLast.op = "save_config"),
                 !.typed = IF pLast.op = "save_config" THEN pLast.typed ELSE {},
                 !.raised = IF pLast.op = "save_config" THEN pLast.raised ELSE "none"]
  /\ UNCHANGED file
  /\ PnlOnly

\* the user sets the field of f to v: a switch takes the boolean the token
\* stands for, a dropdown one of its options, a text input any text
set_field(f, v) ==
  /\ inputs # <<>>
  /\ f \in Rendered
  /\ Cardinality(typed) < MaxEdits
  /\ \A p \in typed : p[1] # f
  /\ CASE inputs[f].kind = "switch" ->
            /\ v \in EditValues
            /\ Lower(v) \in TrueTokens \cup FalseTokens
            /\ inputs' = [inputs EXCEPT ![f].val = BoolValue(Lower(v) \in TrueTokens)]
       [] inputs[f].kind = "select" ->
            /\ v \in inputs[f].options
            /\ inputs' = [inputs EXCEPT ![f].val = StrValue(v)]
       [] OTHER ->
            /\ v \in EditValues
            /\ inputs' = [inputs EXCEPT ![f].val = StrValue(v)]
  /\ typed' = typed \cup {<<f, v>>}
  /\ pLast' = PStep("set_field")
  /\ UNCHANGED <<file, parser, store>>
  /\ PnlOnly

\* config.config.set(section, key, inp.value): ConfigParser accepts only str
\* values and raises TypeError for any other, RawConfigParser stores anything
SetRaises(cls, v) == cls = "ConfigParser" /\ v.t # "str"

\* the two for loops of save_config from the i-th rendered field on
RECURSIVE SaveFields(_, _, _, _)
SaveFields(cls, ins, i, acc) ==
  IF i > Len(Fields) THEN acc
  ELSE IF i \notin DOMAIN ins THEN SaveFields(cls, ins, i + 1, acc)
  ELSE IF SetRaises(cls, ins[i].val) THEN [acc EXCEPT !.raised = "TypeError"]
  ELSE SaveFields(cls, ins, i + 1, [acc EXCEPT !.store[i] = ins[i].val])

\* save_config: every widget value is set in the store, then the whole store
\* is written to the file
save_config ==
  /\ inputs # <<>>
  /\ LET r == SaveFields(parser, inputs, 1, [store |-> store, raised |-> "none"])
     IN /\ store' = r.store
        /\ file' = IF r.raised = "none"
                     THEN [f \in FieldIds |-> PyStr(r.store[f])]
                     ELSE file
        /\ pLast' = [PStep("save_config") EXCEPT !.typed = typed, !.raised = r.raised]
  /\ UNCHANGED <<parser, inputs, typed>>
  /\ PnlOnly

\* --------------------------------------------------- the lifecycle machine
Blank == <<>>
Zero == <<"0">>

\* [Displays] sections the lifecycle runs are started with
LifecycleConfigs ==
  { NoCfg,
    [k \in DisplayKeys |-> Blank],
    [k \in {"tablescreenid"} |-> Zero],
    [k \in DisplayKeys |-> IF k = "dmdscreenid" THEN <<" ">> ELSE Zero] }

Init == MgrInit /\ OvInit /\ DlgInit /\ PrbInit /\ PnlInit

Next ==
  \/ \E cfg \in LifecycleConfigs, nmon \in 0..MaxMonitors : launch_all_windows(cfg, nmon)
  \/ terminate_all
  \/ wait_for_exit_no_app
  \/ wait_for_exit_enter
  \/ wait_for_exit_return
  \/ quit_action
  \/ \E id \in shown : close_window(id)
  \/ interrupt
  \/ _load_all

Spec == Init /\ [][Next]_vars

\* ------------------------------------------------------ the launch machine
\* one launch from a fresh manager, over every combination of display values
IndexValues ==
  { <<>>, <<" ">>, <<"0">>, <<"1">>, <<" ", "2">>, <<"9">>, <<"-", "1">>,
    <<"-", "9">>, <<"T", "r", "u", "e">>, <<"F", "a", "l", "s", "e">>,
    <<"N", "o", "n", "e">>, <<"x">>, <<"1", ".", "5">> }

LaunchConfigs == [DisplayKeys -> IndexValues]

NextLaunch ==
  \/ /\ launches = 0
     /\ \E cfg \in LaunchConfigs, nmon \in 0..MaxMonitors : launch_all_windows(cfg, nmon)
  \/ wait_for_exit_enter
  \/ _load_all
  \/ quit_action
  \/ wait_for_exit_return
  \/ terminate_all

SpecLaunch == Init /\ [][NextLaunch]_vars

\* ------------------------------------------------------ the overlay machine
NextOverlay ==
  \/ _open_manager
  \/ close_manager
  \/ reload_manager
  \/ reload_window

SpecOverlay == Init /\ [][NextOverlay]_vars

\* ------------------------------------------------------- the bridge machine
NextDialog ==
  \/ \E w \in 1..Len(window_configs) : setup_native_dialogs(w)
  \/ \E mode \in Modes : pick_native_path(mode)
  \/ \E mode \in Modes : request_emit(mode)
  \/ \E outcome \in DialogOutcomes : _show_dialog(outcome)

SpecDialog == Init /\ [][NextDialog]_vars

\* -------------------------------------------------------- the probe machine
NextProbe ==
  \/ \E timeout \in 0..MaxTimeout, iv \in 1..MaxInterval : probe_start(timeout, iv)
  \/ probe_check
  \/ \E o \in AttemptOutcomes, d \in 0..UrlopenTimeout : probe_attempt(o, d)
  \/ \E extra \in 0..MaxOversleep : probe_sleep(extra)

SpecProbe == Init /\ [][NextProbe]_vars

\* -------------------------------------------------------- the panel machine
NextPanel ==
  \/ \E values \in [FieldIds -> FileValues] : ini_written(values)
  \/ \E cls \in {"ConfigParser", "RawConfigParser"} : render_panel(cls)
  \/ \E f \in FieldIds, v \in EditValues \cup InstalledThemes \cup CollectionNames :
       set_field(f, v)
  \/ save_config

SpecPanel == Init /\ [][NextPanel]_vars

\* ------------------------------------------------- claims on the manager
IndexFor(cfg, i) == Strip(DisplaysGet(cfg, window_configs[i][2]))

AllBlank(cfg) == \A i \in 1..Len(window_configs) : IndexFor(cfg, i) = <<>>

Names(ws) == {ws[i].name : i \in 1..Len(ws)}

\* C1: a launch whose three display keys are all blank or missing creates no
\* window, sets the exit flag, schedules no page load and leaves is_running false.
C1_BlankLaunchSetsExit ==
  (last.op = "launch_all_windows" /\ AllBlank(last.cfg))
    => /\ last.created = <<>>
       /\ exitFlag
       /\ ~last.scheduled
       /\ ~is_running

\* C2: whenever wait_for_exit has returned, the exit flag is set.
C2_ExitSetOnReturn == last.op = "wait_for_exit" => exitFlag

\* the configured index of role i is an integer >= the n enumerated monitors
TooLarge(cfg, i, n) ==
  /\ IsIntLiteral(IndexFor(cfg, i))
  /\ IntValue(IndexFor(cfg, i)) >= n

\* role i is configured and its sanitized index names one of the n monitors
ValidIndex(cfg, i, n) ==
  /\ IndexFor(cfg, i) # <<>>
  /\ SanitizeScreenId(IndexFor(cfg, i)) \in 0..(n - 1)

\* role i is configured with an index below -n
BelowRange(cfg, i, n) ==
  /\ IndexFor(cfg, i) # <<>>
  /\ SanitizeScreenId(IndexFor(cfg, i)) < 0 - n

C4_TerminateAll ==
  /\ [](last.op = "terminate_all" =>
          /\ windows = <<>>
          /\ Ids(last.before) \cap shown = {}
          /\ exitFlag
          /\ ~is_running
          /\ last.raised = "none")
  /\ [][(last.op = "terminate_all" /\ last'.op = "terminate_all")
          => UNCHANGED <<app, windows, exitFlag, shown, loaded, timers, focus,
                         bridge, pc>>]_vars

\* terminate_all has closed three tracked windows while the event loop ran
C4_Witness ==
  /\ last.op = "terminate_all"
  /\ Len(last.before) = 3
  /\ pc = "exited"

\* C5: the exit flag, once set, is never cleared.
C5_ExitFlagMonotone == [][exitFlag => exitFlag']_vars

\* a launch that created windows on a manager whose exit flag was already set
C5_Witness ==
  /\ last.op = "launch_all_windows"
  /\ last.created # <<>>
  /\ exitFlag

\* C6: the tracked window set holds at most one window per logical name.
C6_OneWindowPerName ==
  \A n \in WindowNames :
    Cardinality({i \in 1..Len(windows) : windows[i].name = n}) <= 1

\* ---------------------------------------------- claims on the dialog bridge
\* C7: a pick_native_path call made with the bridge initialized never raises,
\* its handback is invoked exactly once, and the caller receives exactly the
\* value handed back (the chosen path, or "" on cancel or dialog failure).
C7_HandbackExactlyOnce ==
  \A c \in 1..Len(picks) :
    picks[c].bridged =>
      /\ picks[c].raised = "none"
      /\ picks[c].req # 0
      /\ Len(handbacks[picks[c].req]) <= 1
      /\ picks[c].state = "returned" =>
           /\ Len(handbacks[picks[c].req]) = 1
           /\ picks[c].result = handbacks[picks[c].req][1]

\* C8: a pick_native_path call made before the bridge is initialized emits no
\* request, shows no dialog, returns None and does not raise.
C8_NotReadyReturnsNone ==
  /\ \A c \in 1..Len(picks) :
       ~picks[c].bridged =>
         /\ picks[c].state = "returned"
         /\ picks[c].result = "None"
         /\ picks[c].raised = "none"
         /\ picks[c].req = 0
  /\ \A i \in 1..Len(requests) :
       requests[i].callback = "on_done" => picks[requests[i].pick].bridged
  /\ (bridge = 0 /\ picks # <<>>) => (requests = <<>> /\ nextReq = 1)

\* two calls were made with no bridge
C8_Witness ==
  /\ bridge = 0
  /\ Len(picks) = 2
  /\ \A c \in 1..Len(picks) : ~picks[c].bridged /\ picks[c].state = "returned"

\* --------------------------------------------------- claims on the overlay
\* C9: at most one manager overlay is visible; _open_manager with the overlay
\* visible creates no dialog and raises the existing one.
C9_OneOverlay ==
  /\ Cardinality({i \in 1..Len(dialogs) : dialogs[i].visible}) <= 1
  /\ (/\ ovLast.op = "_open_manager"
      /\ ovLast.before # <<>>
      /\ ovLast.before[Len(ovLast.before)].visible)
       => /\ Len(dialogs) = Len(ovLast.before)
          /\ dialogs[Len(dialogs)].visible
          /\ dialogs[Len(dialogs)].raised
               = ovLast.before[Len(ovLast.before)].raised + 1

\* the second overlay of the window was open when _open_manager ran again
C9_Witness ==
  /\ ovLast.op = "_open_manager"
  /\ Len(ovLast.before) = 2
  /\ ovLast.before[2].visible
  /\ pageReloads > 0

\* ----------------------------------------------------- claims on the probe
\* C10: _wait_for_server returns a boolean; an answered attempt (HTTP error
\* status included) is the last attempt and makes it return True at once; it
\* returns False only when no attempt was answered and the deadline has passed.
C10_Probe ==
  /\ ppc = "done" => presult \in {"True", "False"}
  /\ ppc # "done" => presult = "none"
  /\ \A i \in 1..Len(outcomes) :
       outcomes[i] \in {"response", "HTTPError"}
         => (i = Len(outcomes) /\ ppc = "done" /\ presult = "True")
  /\ (outcomes # <<>> /\ outcomes[1] = "HTTPError") => sleeps = 0
  /\ presult = "True" =>
       (outcomes # <<>> /\ outcomes[Len(outcomes)] \in {"response", "HTTPError"})
  /\ presult = "False" =>
       /\ \A i \in 1..Len(outcomes) : outcomes[i] = "Exception"
       /\ now >= deadline

\* the probe gave up after two unanswered attempts
C10_Witness ==
  /\ ppc = "done"
  /\ presult = "False"
  /\ Len(outcomes) = 2
  /\ sleeps = 2

\* ------------------------------------------ more claims on the launch
\* the string of role i is not blank and int() rejects it
NonNumeric(cfg, i) ==
  /\ IndexFor(cfg, i) # <<>>
  /\ ~IsIntLiteral(IndexFor(cfg, i))

\* the window the last launch created for role i, as a set
CreatedFor(i) ==
  {last.created[k] : k \in {k \in 1..Len(last.created) :
                               last.created[k].name = window_configs[i][1]}}

Rank(name) == CHOOSE i \in 1..Len(window_configs) : window_configs[i][1] = name

\* the tracked windows are in the order bg, dmd, table
InCreationOrder ==
  \A i, j \in 1..Len(windows) :
    i < j => (Rank(windows[i].name) < Rank(windows[j].name) /\ windows[i].id < windows[j].id)

\* C12 as stated: windows are created in the order bg, dmd, table and, whenever
\* at least one window exists, the last-created window has the focus once the
\* pages are loaded.
C12_LastCreatedFocused ==
  /\ InCreationOrder
  /\ (last.op = "_load_all" /\ windows # <<>>)
       => focus = windows[Len(windows)].id

\* C12 amended: after one launch on a fresh manager the windows are in the
\* order bg, dmd, table; when the pages are loaded the table window, if one was
\* created, is the last-created window and has the focus, and if no table
\* window was created _load_all gives the focus to no window.
C12_TableFocused ==
  /\ InCreationOrder
  /\ (last.op = "_load_all" /\ windows # <<>>) =>
       IF "table" \in Names(windows)
         THEN /\ windows[Len(windows)].name = "table"
              /\ focus = windows[Len(windows)].id
              /\ loaded = Ids(windows)
         ELSE focus = 0

\* the pages of bg, dmd and table were loaded and table has the focus
C12_Witness ==
  /\ last.op = "_load_all"
  /\ Len(windows) = 3
  /\ focus = windows[3].id

\* C16: for every non-blank index string and every monitor count the launch
\* does not raise, and every window it creates is on the monitor whose index is
\* the sanitized configured index, within 0..count-1, or on the default
\* geometry when no monitor was enumerated.
C16_GracefulPlacement ==
  last.op = "launch_all_windows" =>
    /\ last.raised = "none"
    /\ \A k \in 1..Len(last.created) :
         IF last.nmon = 0
           THEN last.created[k].mon = DefaultGeometry
           ELSE /\ last.created[k].mon \in 0..(last.nmon - 1)
                /\ last.created[k].mon
                     = SanitizeScreenId(IndexFor(last.cfg, Rank(last.created[k].name)))

\* ---------------------------------------- claims on the configuration panel
IsBoolToken(v) == Lower(v) \in TrueTokens \cup FalseTokens

\* the keys SETTINGS_LABELS lists under "Paths" that the panel model holds,
\* and those of them that name an executable
PathLikeKeys == {"vpxbinpath"}
ExecutableKeys == {"vpxbinpath"}

DropdownField(f) ==
  Fields[f][1] = "Settings" /\ Fields[f][2] \in {"startup_collection", "theme"}

Opened == pLast.op = "render_panel"

C14_SaveWritesStrings ==
  pLast.op = "save_config" =>
    /\ pLast.raised = "none"
    /\ \A f \in Rendered :
         /\ store[f].t = "str"
         /\ inputs[f].kind = "switch" =>
              store[f].s = IF inputs[f].val.b THEN <<"1">> ELSE <<"0">>
         /\ inputs[f].kind # "switch" => store[f] = inputs[f].val
    /\ \A f \in FieldIds : store[f].t = "str" /\ file[f] = store[f].s

\* what reading key f of the reopened panel yields is v: the same boolean when
\* v is a boolean token, the same text otherwise
Yields(f, v) ==
  IF IsBoolToken(v)
    THEN /\ IsBoolToken(store[f].s)
         /\ (Lower(store[f].s) \in TrueTokens) = (Lower(v) \in TrueTokens)
    ELSE store[f] = StrValue(v)

\* C13: when the panel is reopened after a save, every key whose field was set
\* to V before the save reads V.
C13_RoundTrip ==
  (Opened /\ pLast.afterSave) => \A p \in pLast.typed : Yields(p[1], p[2])

====
